---------------------------- MODULE Spec2Model ----------------------------
(***************************************************************************)
(* env-sync: copy CI/CD variables from one GitLab project to another.      *)
(* Model of src/main.go: the GitLabClient (makeRequest, GetVariables,      *)
(* CreateVariable), writeDryRunOutput and the control flow of main.        *)
(*                                                                         *)
(* Strings are sequences of one-character strings, so that the escaping    *)
(* done by url.PathEscape and by encoding/json is computed, not assumed.   *)
(* A base URL starts with the piece Origin, which stands for a well-formed *)
(* "scheme://host" prefix.                                                 *)
(***************************************************************************)
EXTENDS Integers, Sequences, FiniteSets, TLC

VARIABLES
    gitlabURL,      \* flag --gitlab-url (rewritten by strings.TrimRight)
    token,          \* flag --token
    sourceProject,  \* flag --source
    targetProject,  \* flag --target
    dryRun,         \* flag --dry-run
    pc,             \* position of main
    sourceVars,     \* main's sourceVars, the list GetVariables returned
    listErr,        \* the error GetVariables returned
    idx,            \* position of the range loop over sourceVars (1-based)
    successCount,   \* main's successCount
    requests,       \* requests handed to httpClient.Do that went on the network
    responses,      \* what httpClient.Do returned for each of them
    targetVars,     \* the variables of the target project on the server
    file,           \* the dry-run output file
    logged,         \* what the run printed
    exits           \* the exit statuses the process ended with

vars == <<gitlabURL, token, sourceProject, targetProject, dryRun, pc, sourceVars,
          listErr, idx, successCount, requests, responses, targetVars, file,
          logged, exits>>

---------------------------------------------------------------------------
(* Bounds of the model *)

MaxVars == 3

MaxPathLen == 3

(* Program constants *)

StatusOK == 200

StatusCreated == 201

StatusNotFound == 404

---------------------------------------------------------------------------
(* Sequence helpers *)

RECURSIVE Flatten(_)
Flatten(ss) == IF ss = <<>> THEN <<>> ELSE Head(ss) \o Flatten(Tail(ss))

RECURSIVE SeqsUpTo(_, _)
SeqsUpTo(S, n) ==
    IF n = 0 THEN {<<>>}
    ELSE LET shorter == SeqsUpTo(S, n - 1)
         IN  shorter \cup {Append(s, x) : s \in shorter, x \in S}

RECURSIVE SplitOn(_, _)
\* strings.Split-like: the pieces of s between occurrences of sep
SplitOn(s, sep) ==
    IF \A i \in 1..Len(s) : s[i] # sep THEN <<s>>
    ELSE LET k == CHOOSE i \in 1..Len(s) :
                      s[i] = sep /\ \A j \in 1..(i - 1) : s[j] # sep
         IN  <<SubSeq(s, 1, k - 1)>> \o SplitOn(SubSeq(s, k + 1, Len(s)), sep)

---------------------------------------------------------------------------
(* net/url.PathEscape as called at main.go:54 and main.go:90 *)

\* characters url.PathEscape leaves alone in a path segment
UnescapedInSegment == {"g", "p", "2", "5", "F", "-", "_", ".", "~",
                       "$", "&", "+", ":", "=", "@"}

\* the upper-case hex pair of the characters the model escapes
HexOf(c) ==
    CASE c = "/"  -> <<"2", "F">>
      [] c = "%"  -> <<"2", "5">>
      [] c = " "  -> <<"2", "0">>
      [] c = "?"  -> <<"3", "F">>
      [] c = "\n" -> <<"0", "A">>

Escapable == {"/", "%", " ", "?", "\n"}

\* a variant that takes "%" for an already escaped character
PathEscapeCharKeepsPercent(c) ==
    IF c \in UnescapedInSegment \cup {"%"} THEN <<c>> ELSE <<"%">> \o HexOf(c)

PathEscapeChar(c) ==
    IF c \in UnescapedInSegment THEN <<c>> ELSE <<"%">> \o HexOf(c)

PathEscape(s) == Flatten([i \in 1..Len(s) |-> PathEscapeChar(s[i])])

\* what a decoder puts where the input is malformed
Malformed == "(malformed)"

WellFormed(s) == \A i \in 1..Len(s) : s[i] # Malformed

RECURSIVE UnescapeFrom(_)
\* the characters a percent-encoded string stands for; a "%" that no known
\* hex pair follows ends them with Malformed
UnescapeFrom(s) ==
    IF s = <<>> THEN <<>>
    ELSE IF Head(s) # "%" THEN <<Head(s)>> \o UnescapeFrom(Tail(s))
    ELSE IF Len(s) < 3 \/ ~ \E c \in Escapable : HexOf(c) = SubSeq(s, 2, 3)
         THEN <<Malformed>>
    ELSE <<CHOOSE d \in Escapable : HexOf(d) = SubSeq(s, 2, 3)>>
             \o UnescapeFrom(SubSeq(s, 4, Len(s)))

\* net/url.PathUnescape: [ok, s]
PathUnescape(s) ==
    LET r == UnescapeFrom(s)
    IN  IF WellFormed(r) THEN [ok |-> TRUE, s |-> r] ELSE [ok |-> FALSE, s |-> <<>>]

---------------------------------------------------------------------------
(* GitLabClient.makeRequest, main.go:41-51 *)

Origin == "https://gitlab.example"

ApiPrefix == <<"/", "api", "/", "v4", "/">>

\* main.go:55 and main.go:96: fmt.Sprintf("projects/%s/variables", encodedPath)
VariablesPath(projectPath) ==
    <<"projects", "/">> \o PathEscape(projectPath) \o <<"/", "variables">>

\* main.go:42: fmt.Sprintf("%s/api/v4/%s", c.baseURL, path)
RequestURL(baseURL, path) == baseURL \o ApiPrefix \o path

\* http.NewRequest fails when url.Parse rejects the URL: a control character
NewRequestOK(url) == \A i \in 1..Len(url) : url[i] # "\n"

\* makeRequest: [ok, method, url, body, headers]
makeRequest(baseURL, tok, method, path, body) ==
    LET url == RequestURL(baseURL, path)
    IN  [ok      |-> NewRequestOK(url),
         method  |-> method,
         url     |-> url,
         body    |-> body,
         private |-> tok,
         ctype   |-> "application/json"]

\* http.Client.Do sends nothing for a URL without a scheme and host
Sendable(url) == Len(url) > 0 /\ url[1] = Origin

---------------------------------------------------------------------------
(* type EnvVar, main.go:16-23, and its encoding/json form *)

EnvVar(vt, k, v, prot, mask, scope) ==
    [variable_type |-> vt, key |-> k, value |-> v, protected |-> prot,
     masked |-> mask, environment_scope |-> scope]

\* json.Marshal of one character of a string (HTML escaping is on by default)
JsonEscapeChar(c) ==
    CASE c = "\"" -> <<"\\", "\"">>
      [] c = "\\" -> <<"\\", "\\">>
      [] c = "\n" -> <<"\\", "n">>
      [] c = "<"  -> <<"\\", "u", "0", "0", "3", "c">>
      [] OTHER    -> <<c>>

JsonQuote(s) == <<"\"">> \o Flatten([i \in 1..Len(s) |-> JsonEscapeChar(s[i])]) \o <<"\"">>

JsonBool(b) == IF b THEN "true" ELSE "false"

\* a variant that writes the two flags under each other's name
MarshalEnvVarSwapsFlags(v) ==
    [variable_type     |-> JsonQuote(v.variable_type),
     key               |-> JsonQuote(v.key),
     value             |-> JsonQuote(v.value),
     protected         |-> JsonBool(v.masked),
     masked            |-> JsonBool(v.protected),
     environment_scope |-> JsonQuote(v.environment_scope)]

\* json.Marshal(variable), main.go:91: the object, field by field
MarshalEnvVar(v) ==
    [variable_type     |-> JsonQuote(v.variable_type),
     key               |-> JsonQuote(v.key),
     value             |-> JsonQuote(v.value),
     protected         |-> JsonBool(v.protected),
     masked            |-> JsonBool(v.masked),
     environment_scope |-> JsonQuote(v.environment_scope)]

RECURSIVE UnquoteBody(_)
\* the characters of a JSON string literal between its quotes; a raw quote or
\* control character, or an unknown escape, ends them with Malformed
UnquoteBody(s) ==
    IF s = <<>> THEN <<>>
    ELSE IF Head(s) \in {"\"", "\n"} THEN <<Malformed>>
    ELSE IF Head(s) # "\\" THEN <<Head(s)>> \o UnquoteBody(Tail(s))
    ELSE IF Len(s) < 2 THEN <<Malformed>>
    ELSE IF s[2] \in {"\"", "\\", "/"}
         THEN <<s[2]>> \o UnquoteBody(SubSeq(s, 3, Len(s)))
    ELSE IF s[2] = "n" THEN <<"\n">> \o UnquoteBody(SubSeq(s, 3, Len(s)))
    ELSE IF s[2] = "u" /\ Len(s) >= 6 /\ SubSeq(s, 3, 6) = <<"0", "0", "3", "c">>
         THEN <<"<">> \o UnquoteBody(SubSeq(s, 7, Len(s)))
    ELSE <<Malformed>>

\* decoding a JSON string literal: [ok, s]
JsonUnquote(q) ==
    IF Len(q) < 2 \/ q[1] # "\"" \/ q[Len(q)] # "\""
    THEN [ok |-> FALSE, s |-> <<>>]
    ELSE LET r == UnquoteBody(SubSeq(q, 2, Len(q) - 1))
         IN  IF WellFormed(r) THEN [ok |-> TRUE, s |-> r]
             ELSE [ok |-> FALSE, s |-> <<>>]

ZeroEnvVar == EnvVar(<<>>, <<>>, <<>>, FALSE, FALSE, <<>>)

\* decoding one JSON object into an EnvVar: [ok, v]
UnmarshalEnvVar(o) ==
    LET vt == JsonUnquote(o.variable_type)
        k  == JsonUnquote(o.key)
        v  == JsonUnquote(o.value)
        sc == JsonUnquote(o.environment_scope)
        ok == /\ vt.ok /\ k.ok /\ v.ok /\ sc.ok
              /\ o.protected \in {"true", "false"}
              /\ o.masked \in {"true", "false"}
    IN  [ok |-> ok,
         v  |-> IF ok THEN EnvVar(vt.s, k.s, v.s, o.protected = "true",
                                  o.masked = "true", sc.s)
                ELSE ZeroEnvVar]

\* json.NewDecoder(resp.Body).Decode(&variables), main.go:77-78:
\* [ok, vars]; on an error vars holds the elements decoded before it
DecodeList(items) ==
    LET ds  == [i \in 1..Len(items) |-> UnmarshalEnvVar(items[i])]
        bad == {i \in 1..Len(items) : ~ds[i].ok}
        n   == IF bad = {} THEN Len(items)
               ELSE (CHOOSE i \in bad : \A j \in bad : i <= j) - 1
    IN  [ok |-> bad = {}, vars |-> [i \in 1..n |-> ds[i].v]]

---------------------------------------------------------------------------
(* What the remote API can answer *)

\* how the server writes a string: only the quote, backslash and newline escaped
ServerEscapeChar(c) ==
    CASE c = "\"" -> <<"\\", "\"">>
      [] c = "\\" -> <<"\\", "\\">>
      [] c = "\n" -> <<"\\", "n">>
      [] OTHER    -> <<c>>

ServerQuote(s) == <<"\"">> \o Flatten([i \in 1..Len(s) |-> ServerEscapeChar(s[i])]) \o <<"\"">>

ServerItem(v) ==
    [variable_type     |-> ServerQuote(v.variable_type),
     key               |-> ServerQuote(v.key),
     value             |-> ServerQuote(v.value),
     protected         |-> JsonBool(v.protected),
     masked            |-> JsonBool(v.masked),
     environment_scope |-> ServerQuote(v.environment_scope)]

\* the variables a source project may hold; they share a key
VarPool ==
    {EnvVar(<<"e">>, <<"K">>, <<"a", "\"", "<">>, TRUE, FALSE, <<"*">>),
     EnvVar(<<"f">>, <<"K">>, <<"\\", "\n">>, FALSE, TRUE, <<"p">>)}

\* an element of the array that does not match the EnvVar shape
BadItem == [ServerItem(ZeroEnvVar) EXCEPT !.protected = "\"yes\""]

BodyItems == {ServerItem(v) : v \in VarPool} \cup {BadItem}

Bodies == SeqsUpTo(BodyItems, MaxVars)

Outcome(kind, status, body) == [kind |-> kind, status |-> status, body |-> body]

TransportFailure == Outcome("transport", 0, <<>>)

ListOutcomes ==
    {TransportFailure}
        \cup {Outcome("response", StatusOK, b) : b \in Bodies}
        \cup {Outcome("response", st, b) :
                st \in {StatusNotFound, StatusCreated, 500}, b \in {<<>>, <<BadItem>>}}

CreateOutcomes ==
    {TransportFailure}
        \cup {Outcome("response", st, <<>>) : st \in {StatusCreated, StatusOK, 400}}

---------------------------------------------------------------------------
(* Errors *)

Err(kind, subject, status, body) ==
    [kind |-> kind, subject |-> subject, status |-> status, body |-> body]

NoErr == Err("nil", <<>>, 0, <<>>)

NoRequest == [ok |-> FALSE, method |-> "", url |-> <<>>, body |-> <<>>,
              private |-> <<>>, ctype |-> ""]

\* what a client operation hands back: its values, the request it built and
\* whether httpClient.Do put it on the network
Result(vs, err, req, sent) == [vars |-> vs, err |-> err, req |-> req, sent |-> sent]

---------------------------------------------------------------------------
(* GitLabClient.GetVariables, main.go:53-83 *)

\* a variant that hands back what was decoded before a decoding error
GetVariablesPartial(baseURL, tok, projectPath, o) ==
    LET req == makeRequest(baseURL, tok, "GET", VariablesPath(projectPath), <<>>)
        dec == DecodeList(o.body)
    IN  IF ~req.ok
          THEN Result(<<>>, Err("NewRequest", req.url, 0, <<>>), req, FALSE)
        ELSE IF ~Sendable(req.url)
          THEN Result(<<>>, Err("Transport", req.url, 0, <<>>), req, FALSE)
        ELSE IF o.kind = "transport"
          THEN Result(<<>>, Err("Transport", req.url, 0, <<>>), req, TRUE)
        ELSE IF o.status = StatusNotFound
          THEN Result(<<>>, Err("NotFound", projectPath, 0, <<>>), req, TRUE)
        ELSE IF o.status # StatusOK
          THEN Result(<<>>, Err("RequestFailed", <<>>, o.status, o.body), req, TRUE)
        ELSE IF ~dec.ok
          THEN Result(dec.vars, Err("Decode", <<>>, 0, <<>>), req, TRUE)
        ELSE Result(dec.vars, NoErr, req, TRUE)

GetVariables(baseURL, tok, projectPath, o) ==
    LET req == makeRequest(baseURL, tok, "GET", VariablesPath(projectPath), <<>>)
        dec == DecodeList(o.body)
    IN  IF ~req.ok
          THEN Result(<<>>, Err("NewRequest", req.url, 0, <<>>), req, FALSE)
        ELSE IF ~Sendable(req.url)
          THEN Result(<<>>, Err("Transport", req.url, 0, <<>>), req, FALSE)
        ELSE IF o.kind = "transport"
          THEN Result(<<>>, Err("Transport", req.url, 0, <<>>), req, TRUE)
        ELSE IF o.status = StatusNotFound
          THEN Result(<<>>, Err("NotFound", projectPath, 0, <<>>), req, TRUE)
        ELSE IF o.status # StatusOK
          THEN Result(<<>>, Err("RequestFailed", <<>>, o.status, o.body), req, TRUE)
        ELSE IF ~dec.ok
          THEN Result(<<>>, Err("Decode", <<>>, 0, <<>>), req, TRUE)
        ELSE Result(dec.vars, NoErr, req, TRUE)

---------------------------------------------------------------------------
(* GitLabClient.CreateVariable, main.go:85-113 *)

\* a variant that takes every status up to 201 for a success
CreateVariableAny2xx(baseURL, tok, projectPath, variable, dry, o) ==
    LET data == MarshalEnvVar(variable)
        req  == makeRequest(baseURL, tok, "POST", VariablesPath(projectPath), <<data>>)
    IN  IF dry
          THEN Result(<<>>, NoErr, NoRequest, FALSE)
        ELSE IF ~req.ok
          THEN Result(<<>>, Err("NewRequest", req.url, 0, <<>>), req, FALSE)
        ELSE IF ~Sendable(req.url)
          THEN Result(<<>>, Err("Transport", req.url, 0, <<>>), req, FALSE)
        ELSE IF o.kind = "transport"
          THEN Result(<<>>, Err("Transport", req.url, 0, <<>>), req, TRUE)
        ELSE IF o.status > StatusCreated
          THEN Result(<<>>, Err("CreateFailed", variable.key, o.status, o.body), req, TRUE)
        ELSE Result(<<>>, NoErr, req, TRUE)

CreateVariable(baseURL, tok, projectPath, variable, dry, o) ==
    LET data == MarshalEnvVar(variable)
        req  == makeRequest(baseURL, tok, "POST", VariablesPath(projectPath), <<data>>)
    IN  IF dry
          THEN Result(<<>>, NoErr, NoRequest, FALSE)
        ELSE IF ~req.ok
          THEN Result(<<>>, Err("NewRequest", req.url, 0, <<>>), req, FALSE)
        ELSE IF ~Sendable(req.url)
          THEN Result(<<>>, Err("Transport", req.url, 0, <<>>), req, FALSE)
        ELSE IF o.kind = "transport"
          THEN Result(<<>>, Err("Transport", req.url, 0, <<>>), req, TRUE)
        ELSE IF o.status # StatusCreated
          THEN Result(<<>>, Err("CreateFailed", variable.key, o.status, o.body), req, TRUE)
        ELSE Result(<<>>, NoErr, req, TRUE)

\* the remote API: a POST answered 201 has added the decoded record
ServerCreate(tv, req, o) ==
    IF o.kind = "response" /\ o.status = StatusCreated
    THEN tv \o DecodeList(req.body).vars
    ELSE tv

---------------------------------------------------------------------------
(* writeDryRunOutput, main.go:115-134 *)

NoFile == [state |-> "absent", timestamp |-> "", source_project |-> <<>>,
           target_project |-> <<>>, variables |-> <<>>]

\* w is what os.WriteFile meets: "ok", "open_failed" or "write_failed"
writeDryRunOutput(old, source, target, variables, w) ==
    LET output == [state          |-> "written",
                   timestamp      |-> "now",
                   source_project |-> JsonQuote(source),
                   target_project |-> JsonQuote(target),
                   variables      |-> [i \in 1..Len(variables) |-> MarshalEnvVar(variables[i])]]
    IN  CASE w = "ok"           -> [err |-> NoErr, file |-> output]
          [] w = "open_failed"  -> [err |-> Err("IO", <<>>, 0, <<>>), file |-> old]
          [] w = "write_failed" -> [err |-> Err("IO", <<>>, 0, <<>>),
                                    file |-> [NoFile EXCEPT !.state = "partial"]]

WriteOutcomes == {"ok", "open_failed", "write_failed"}

---------------------------------------------------------------------------
(* main, main.go:136-191 *)

RECURSIVE TrimRight(_, _)
\* strings.TrimRight(s, "/"), main.go:159
TrimRight(s, c) ==
    IF s # <<>> /\ s[Len(s)] = c THEN TrimRight(SubSeq(s, 1, Len(s) - 1), c) ELSE s

Log(kind, key, err, n, total) ==
    [kind |-> kind, key |-> key, err |-> err, n |-> n, total |-> total]

\* a variant that asks for usage only when every flag is missing
MissingFlagAllEmpty(u, t, s, d) == u = <<>> /\ t = <<>> /\ s = <<>> /\ d = <<>>

\* main.go:148
MissingFlag(u, t, s, d) == u = <<>> \/ t = <<>> \/ s = <<>> \/ d = <<>>

URLFlags ==
    {<<>>, <<Origin>>, <<Origin, "/">>, <<Origin, "/", "/">>, <<"/">>,
     <<Origin, "\n">>, <<Origin, "/", "g">>}

TokenFlags == {<<>>, <<"t">>}

ProjectFlags == {<<>>, <<"g", "/", "p">>, <<"p", "%", "2", "F">>}

Init ==
    /\ gitlabURL \in URLFlags
    /\ token \in TokenFlags
    /\ sourceProject \in ProjectFlags
    /\ targetProject \in ProjectFlags
    /\ dryRun \in BOOLEAN
    /\ pc = "start"
    /\ sourceVars = <<>>
    /\ listErr = NoErr
    /\ idx = 1
    /\ successCount = 0
    /\ requests = <<>>
    /\ responses = <<>>
    /\ targetVars = <<>>
    /\ file = NoFile
    /\ logged = <<>>
    /\ exits = <<>>

\* main.go:148-157: a required flag is empty
Usage ==
    /\ pc = "start"
    /\ MissingFlag(gitlabURL, token, sourceProject, targetProject)
    /\ logged' = Append(logged, Log("usage", <<>>, NoErr, 0, 0))
    /\ exits' = Append(exits, 1)
    /\ pc' = "exited"
    /\ UNCHANGED <<gitlabURL, token, sourceProject, targetProject, dryRun, sourceVars,
                   listErr, idx, successCount, requests, responses, targetVars, file>>

\* main.go:148, 159-163: the flags are there; trim the URL, build the client
Configure ==
    /\ pc = "start"
    /\ ~MissingFlag(gitlabURL, token, sourceProject, targetProject)
    /\ gitlabURL' = TrimRight(gitlabURL, "/")
    /\ logged' = Append(logged, Log("fetching", sourceProject, NoErr, 0, 0))
    /\ pc' = "fetch"
    /\ UNCHANGED <<token, sourceProject, targetProject, dryRun, sourceVars, listErr,
                   idx, successCount, requests, responses, targetVars, file, exits>>

\* what a call of the client leaves on the network
Sent(r, o) ==
    /\ requests' = IF r.sent THEN Append(requests, r.req) ELSE requests
    /\ responses' = IF r.sent THEN Append(responses, o) ELSE responses

\* a variant that logs the listing error and goes on
FetchFailContinues ==
    /\ pc = "fetch"
    /\ \E o \in ListOutcomes :
         LET r == GetVariables(gitlabURL, token, sourceProject, o)
         IN  /\ r.err # NoErr
             /\ Sent(r, o)
             /\ sourceVars' = r.vars
             /\ listErr' = r.err
             /\ logged' = Append(logged, Log("fatal_list", <<>>, r.err, 0, 0))
    /\ pc' = IF dryRun THEN "dryrun" ELSE "transfer"
    /\ UNCHANGED <<gitlabURL, token, sourceProject, targetProject, dryRun, idx,
                   successCount, targetVars, file, exits>>

\* main.go:164-167: the listing fails, log.Fatalf
FetchFail ==
    /\ pc = "fetch"
    /\ \E o \in ListOutcomes :
         LET r == GetVariables(gitlabURL, token, sourceProject, o)
         IN  /\ r.err # NoErr
             /\ Sent(r, o)
             /\ sourceVars' = r.vars
             /\ listErr' = r.err
             /\ logged' = Append(logged, Log("fatal_list", <<>>, r.err, 0, 0))
    /\ exits' = Append(exits, 1)
    /\ pc' = "exited"
    /\ UNCHANGED <<gitlabURL, token, sourceProject, targetProject, dryRun, idx,
                   successCount, targetVars, file>>

\* main.go:164-169, 178: the listing succeeds
FetchOK ==
    /\ pc = "fetch"
    /\ \E o \in ListOutcomes :
         LET r == GetVariables(gitlabURL, token, sourceProject, o)
         IN  /\ r.err = NoErr
             /\ Sent(r, o)
             /\ sourceVars' = r.vars
             /\ listErr' = r.err
             /\ logged' = Append(logged,
                    IF dryRun THEN Log("dry_run", <<>>, NoErr, 0, 0)
                    ELSE Log("starting", <<>>, NoErr, 0, Len(r.vars)))
    /\ pc' = IF dryRun THEN "dryrun" ELSE "transfer"
    /\ UNCHANGED <<gitlabURL, token, sourceProject, targetProject, dryRun, idx,
                   successCount, targetVars, file, exits>>

\* a variant without the return at the end of the dry-run branch
DryRunWrittenFallsThrough ==
    /\ pc = "dryrun"
    /\ \E w \in WriteOutcomes :
         LET r == writeDryRunOutput(file, sourceProject, targetProject, sourceVars, w)
         IN  /\ r.err = NoErr
             /\ file' = r.file
    /\ logged' = Append(logged, Log("dry_run_done", <<>>, NoErr, Len(sourceVars), 0))
    /\ pc' = "transfer"
    /\ UNCHANGED <<gitlabURL, token, sourceProject, targetProject, dryRun, sourceVars,
                   listErr, idx, successCount, requests, responses, targetVars, exits>>

\* main.go:169-176: the dry run writes its report and returns
DryRunWritten ==
    /\ pc = "dryrun"
    /\ \E w \in WriteOutcomes :
         LET r == writeDryRunOutput(file, sourceProject, targetProject, sourceVars, w)
         IN  /\ r.err = NoErr
             /\ file' = r.file
    /\ logged' = Append(logged, Log("dry_run_done", <<>>, NoErr, Len(sourceVars), 0))
    /\ exits' = Append(exits, 0)
    /\ pc' = "exited"
    /\ UNCHANGED <<gitlabURL, token, sourceProject, targetProject, dryRun, sourceVars,
                   listErr, idx, successCount, requests, responses, targetVars>>

\* a variant that drops the error of writeDryRunOutput
DryRunWriteFailIgnored ==
    /\ pc = "dryrun"
    /\ \E w \in WriteOutcomes :
         LET r == writeDryRunOutput(file, sourceProject, targetProject, sourceVars, w)
         IN  /\ r.err # NoErr
             /\ file' = r.file
    /\ logged' = Append(logged, Log("dry_run_done", <<>>, NoErr, Len(sourceVars), 0))
    /\ exits' = Append(exits, 0)
    /\ pc' = "exited"
    /\ UNCHANGED <<gitlabURL, token, sourceProject, targetProject, dryRun, sourceVars,
                   listErr, idx, successCount, requests, responses, targetVars>>

\* main.go:171-173: the report cannot be written, log.Fatalf
DryRunWriteFail ==
    /\ pc = "dryrun"
    /\ \E w \in WriteOutcomes :
         LET r == writeDryRunOutput(file, sourceProject, targetProject, sourceVars, w)
         IN  /\ r.err # NoErr
             /\ file' = r.file
             /\ logged' = Append(logged, Log("fatal_write", <<>>, r.err, 0, 0))
    /\ exits' = Append(exits, 1)
    /\ pc' = "exited"
    /\ UNCHANGED <<gitlabURL, token, sourceProject, targetProject, dryRun, sourceVars,
                   listErr, idx, successCount, requests, responses, targetVars>>

\* main.go:181-187: one turn of the loop whose creation call succeeds
TransferOK ==
    /\ pc = "transfer"
    /\ idx <= Len(sourceVars)
    /\ \E o \in CreateOutcomes :
         LET v == sourceVars[idx]
             r == CreateVariable(gitlabURL, token, targetProject, v, FALSE, o)
         IN  /\ r.err = NoErr
             /\ Sent(r, o)
             /\ targetVars' = IF r.sent THEN ServerCreate(targetVars, r.req, o)
                              ELSE targetVars
             /\ logged' = Append(logged, Log("transferring", v.key, NoErr, 0, 0))
    /\ successCount' = successCount + 1
    /\ idx' = idx + 1
    /\ UNCHANGED <<gitlabURL, token, sourceProject, targetProject, dryRun, pc,
                   sourceVars, listErr, file, exits>>

\* a variant that ends the run at the first failed creation call
TransferFailAborts ==
    /\ pc = "transfer"
    /\ idx <= Len(sourceVars)
    /\ \E o \in CreateOutcomes :
         LET v == sourceVars[idx]
             r == CreateVariable(gitlabURL, token, targetProject, v, FALSE, o)
         IN  /\ r.err # NoErr
             /\ Sent(r, o)
             /\ targetVars' = IF r.sent THEN ServerCreate(targetVars, r.req, o)
                              ELSE targetVars
             /\ logged' = logged \o <<Log("transferring", v.key, NoErr, 0, 0),
                                      Log("transfer_error", v.key, r.err, 0, 0)>>
    /\ exits' = Append(exits, 1)
    /\ pc' = "exited"
    /\ UNCHANGED <<gitlabURL, token, sourceProject, targetProject, dryRun, idx,
                   sourceVars, listErr, successCount, file>>

\* a variant that tries a failed creation call again
TransferFailRetries ==
    /\ pc = "transfer"
    /\ idx <= Len(sourceVars)
    /\ \E o \in CreateOutcomes :
         LET v == sourceVars[idx]
             r == CreateVariable(gitlabURL, token, targetProject, v, FALSE, o)
         IN  /\ r.err # NoErr
             /\ Sent(r, o)
             /\ targetVars' = IF r.sent THEN ServerCreate(targetVars, r.req, o)
                              ELSE targetVars
             /\ logged' = logged \o <<Log("transferring", v.key, NoErr, 0, 0),
                                      Log("transfer_error", v.key, r.err, 0, 0)>>
    /\ UNCHANGED <<gitlabURL, token, sourceProject, targetProject, dryRun, pc, idx,
                   sourceVars, listErr, successCount, file, exits>>

\* main.go:181-186: one turn of the loop whose creation call fails
TransferFail ==
    /\ pc = "transfer"
    /\ idx <= Len(sourceVars)
    /\ \E o \in CreateOutcomes :
         LET v == sourceVars[idx]
             r == CreateVariable(gitlabURL, token, targetProject, v, FALSE, o)
         IN  /\ r.err # NoErr
             /\ Sent(r, o)
             /\ targetVars' = IF r.sent THEN ServerCreate(targetVars, r.req, o)
                              ELSE targetVars
             /\ logged' = logged \o <<Log("transferring", v.key, NoErr, 0, 0),
                                      Log("transfer_error", v.key, r.err, 0, 0)>>
    /\ idx' = idx + 1
    /\ UNCHANGED <<gitlabURL, token, sourceProject, targetProject, dryRun, pc,
                   sourceVars, listErr, successCount, file, exits>>

\* main.go:188-191: the loop is over; the summary, and main returns
Summary ==
    /\ pc = "transfer"
    /\ idx > Len(sourceVars)
    /\ logged' = Append(logged, Log("summary", <<>>, NoErr, successCount, Len(sourceVars)))
    /\ exits' = Append(exits, 0)
    /\ pc' = "exited"
    /\ UNCHANGED <<gitlabURL, token, sourceProject, targetProject, dryRun, sourceVars,
                   listErr, idx, successCount, requests, responses, targetVars, file>>

Next ==
    \/ Usage
    \/ Configure
    \/ FetchFail
    \/ FetchOK
    \/ DryRunWritten
    \/ DryRunWriteFail
    \/ TransferOK
    \/ TransferFail
    \/ Summary

Spec == Init /\ [][Next]_vars

---------------------------------------------------------------------------
(* The request URLs of the two client operations, over every project path *)

PathAlphabet == {"g", "/", "%", "2", "F", "?"}

PathStrings == SeqsUpTo(PathAlphabet, MaxPathLen) \ {<<>>}

PathInit ==
    /\ gitlabURL \in {<<Origin>>, <<Origin, "/", "g">>}
    /\ token = <<"t">>
    /\ sourceProject \in PathStrings
    /\ targetProject = sourceProject
    /\ dryRun = FALSE
    /\ pc = "path"
    /\ sourceVars = <<>>
    /\ listErr = NoErr
    /\ idx = 1
    /\ successCount = 0
    /\ requests = <<>>
    /\ responses = <<>>
    /\ targetVars = <<>>
    /\ file = NoFile
    /\ logged = <<>>
    /\ exits = <<>>

\* GetVariables builds and sends its request for sourceProject
ListRequestBuilt ==
    /\ pc = "path"
    /\ LET o == Outcome("response", StatusOK, <<>>)
       IN  Sent(GetVariables(gitlabURL, token, sourceProject, o), o)
    /\ pc' = "path_listed"
    /\ UNCHANGED <<gitlabURL, token, sourceProject, targetProject, dryRun, sourceVars,
                   listErr, idx, successCount, targetVars, file, logged, exits>>

\* CreateVariable builds and sends its request for targetProject
CreateRequestBuilt ==
    /\ pc = "path_listed"
    /\ LET o == Outcome("response", StatusCreated, <<>>)
       IN  Sent(CreateVariable(gitlabURL, token, targetProject, ZeroEnvVar, FALSE, o), o)
    /\ pc' = "path_created"
    /\ UNCHANGED <<gitlabURL, token, sourceProject, targetProject, dryRun, sourceVars,
                   listErr, idx, successCount, targetVars, file, logged, exits>>

PathNext == ListRequestBuilt \/ CreateRequestBuilt

PathSpec == PathInit /\ [][PathNext]_vars

---------------------------------------------------------------------------
(* Vocabulary of the properties *)

PostIndexes == {i \in 1..Len(requests) : requests[i].method = "POST"}

CreatedIndexes ==
    {i \in PostIndexes : responses[i].kind = "response" /\ responses[i].status = 201}

LoggedKinds(k) == {i \in 1..Len(logged) : logged[i].kind = k}

\* the run got past the validation of the flags
Validated == logged # <<>> /\ logged[1].kind = "fetching"

\* the listing call came back with a list
Listed == Validated /\ pc \in {"dryrun", "transfer", "exited"} /\ listErr = NoErr

\* the project path a request's URL addresses, as the server reads it:
\* the URL after the base and the API prefix, cut at its separators
AddressedPath(req, base) ==
    LET n    == Len(base) + Len(ApiPrefix)
        segs == SplitOn(SubSeq(req.url, n + 1, Len(req.url)), "/")
    IN  IF /\ Len(req.url) >= n
           /\ SubSeq(req.url, 1, n) = base \o ApiPrefix
           /\ Len(segs) = 3
           /\ segs[1] = <<"projects">>
           /\ segs[3] = <<"variables">>
        THEN PathUnescape(segs[2])
        ELSE [ok |-> FALSE, s |-> <<>>]

---------------------------------------------------------------------------
(* C1: in a dry run whose listing succeeded no POST is ever issued, the     *)
(* target project keeps its variables, a dry run that ends with status 0    *)
(* has written the report, and a written report decodes to exactly the      *)
(* list the listing call returned, in the same order.                       *)
DryRunOnlyReports ==
    (dryRun /\ Listed) =>
        /\ PostIndexes = {}
        /\ Len(requests) = 1
        /\ targetVars = <<>>
        /\ (pc = "exited" /\ exits = <<0>>) => file.state = "written"
        /\ file.state = "written" =>
             /\ DecodeList(file.variables) = [ok |-> TRUE, vars |-> sourceVars]
             /\ DecodeList(responses[1].body) = [ok |-> TRUE, vars |-> sourceVars]
             /\ JsonUnquote(file.source_project) = [ok |-> TRUE, s |-> sourceProject]
             /\ JsonUnquote(file.target_project) = [ok |-> TRUE, s |-> targetProject]

DryRunReportWitness ==
    /\ dryRun
    /\ pc = "exited"
    /\ file.state = "written"
    /\ Len(sourceVars) = 3
    /\ sourceVars[1] # sourceVars[2]
    /\ sourceVars[1] = sourceVars[3]

---------------------------------------------------------------------------
(* C2: once the listing call has failed, whatever the reason and whatever   *)
(* the mode, the process has exited with status 1, no report file exists,   *)
(* no creation call was made and no variable list is held.                  *)
ListFailureIsFatal ==
    (Validated /\ listErr # NoErr) =>
        /\ pc = "exited"
        /\ exits = <<1>>
        /\ file = NoFile
        /\ PostIndexes = {}
        /\ targetVars = <<>>
        /\ LoggedKinds("fatal_list") # {}
        /\ LoggedKinds("dry_run_done") \cup LoggedKinds("summary") = {}

ListFailureWitness ==
    /\ listErr.kind = "Decode"
    /\ dryRun
    /\ Len(responses) = 1
    /\ Len(responses[1].body) = 2

---------------------------------------------------------------------------
(* C3: in a live run the success counter equals the number of creation      *)
(* calls answered 201, at every point of the loop it is at most the number  *)
(* of variables processed, which is at most the number listed, and the      *)
(* summary reports that counter over the number listed.                     *)
SuccessCountIsCreatedCount ==
    /\ successCount = Cardinality(CreatedIndexes)
    /\ successCount <= idx - 1
    /\ idx - 1 <= Len(sourceVars)
    /\ \A i \in LoggedKinds("summary") :
         /\ logged[i].n = Cardinality(CreatedIndexes)
         /\ logged[i].n <= logged[i].total
         /\ logged[i].total = Len(sourceVars)
         /\ logged[i].total = Len(DecodeList(responses[1].body).vars)

SuccessCountWitness ==
    /\ pc = "exited"
    /\ LoggedKinds("summary") # {}
    /\ Len(sourceVars) = 3
    /\ successCount = 2
    /\ \E i \in PostIndexes : responses[i].kind = "response" /\ responses[i].status = 200

---------------------------------------------------------------------------
(* The turns of the transfer loop and the end of a live run *)
LoopTurnGoesOn ==
    (pc = "transfer" /\ idx <= Len(sourceVars)) =>
        (pc' = "transfer" /\ idx' = idx + 1 /\ exits' = <<>>
           /\ Len(requests') = Len(requests) + 1)

LiveRunEndsWithSummary ==
    LET N        == Len(sourceVars)
        failures == LoggedKinds("transfer_error")
    IN  (~dryRun /\ Listed) =>
          /\ pc = "transfer" => (exits = <<>> /\ idx <= N + 1)
          /\ Cardinality(failures) = Cardinality(PostIndexes \ CreatedIndexes)
          /\ pc = "exited" =>
               /\ exits = <<0>>
               /\ idx = N + 1
               /\ Cardinality(PostIndexes) = N
               /\ logged[Len(logged)] =
                    Log("summary", <<>>, NoErr, N - Cardinality(failures), N)
               /\ Cardinality(failures) = 1 => logged[Len(logged)].n = N - 1

(* C4: in a live run a failed creation call never ends the run: every turn  *)
(* of the loop, failed or not, leaves the process running and moves on to   *)
(* the next variable, and the run ends with the summary and status 0,       *)
(* having gone through all N variables and reporting N minus the number of  *)
(* failed calls; with one failure that is (N-1)/N.                          *)
FailedCreationNeverAborts == [][LoopTurnGoesOn]_vars /\ []LiveRunEndsWithSummary

OneFailureWitness ==
    /\ ~dryRun
    /\ pc = "exited"
    /\ Len(sourceVars) = 3
    /\ Cardinality(LoggedKinds("transfer_error")) = 1
    /\ logged[Len(logged)].kind = "summary"
    /\ logged[Len(logged)].n = 2
    /\ responses[2].kind = "transport"
    /\ exits = <<0>>

---------------------------------------------------------------------------
(* The step of a run that lacks a required flag *)
MissingFlagStep ==
    (/\ pc = "start"
     /\ (gitlabURL = <<>> \/ token = <<>> \/ sourceProject = <<>> \/ targetProject = <<>>)) =>
        /\ pc' = "exited"
        /\ exits' = <<1>>
        /\ logged' = <<Log("usage", <<>>, NoErr, 0, 0)>>
        /\ requests' = <<>>
        /\ responses' = <<>>
        /\ file' = NoFile
        /\ targetVars' = <<>>

(* C5: a run started with any of the four required flags empty does one     *)
(* thing: it prints the usage text and exits with status 1, with no request *)
(* built or sent and no report file written.                                *)
MissingFlagStopsEarly ==
    /\ [][MissingFlagStep]_vars
    /\ [](LoggedKinds("usage") # {} =>
            (pc = "exited" /\ exits = <<1>> /\ requests = <<>> /\ file = NoFile))

MissingFlagWitness ==
    /\ pc = "exited"
    /\ LoggedKinds("usage") # {}
    /\ token = <<>>
    /\ gitlabURL # <<>> /\ sourceProject # <<>> /\ targetProject # <<>>
    /\ dryRun

---------------------------------------------------------------------------
(* C6: a dry run that got its list and ends without a written report has    *)
(* exited with status 1, has issued no creation call and has not reported   *)
(* a completed dry run.                                                     *)
DryRunWriteFailureIsFatal ==
    (dryRun /\ Listed /\ pc = "exited" /\ file.state # "written") =>
        /\ exits = <<1>>
        /\ PostIndexes = {}
        /\ targetVars = <<>>
        /\ LoggedKinds("dry_run_done") = {}
        /\ logged[Len(logged)].kind = "fatal_write"

DryRunWriteFailureWitness ==
    /\ dryRun
    /\ pc = "exited"
    /\ file.state = "partial"
    /\ Len(sourceVars) = 2

---------------------------------------------------------------------------
(* C7: the URL of every list and create request addresses the project in    *)
(* one path segment: cut at its separators the path is projects, one        *)
(* segment, variables, and unescaping that segment gives back the project   *)
(* path exactly.                                                            *)
PathSegmentRoundTrip ==
    \A i \in 1..Len(requests) :
        AddressedPath(requests[i], gitlabURL) =
            [ok |-> TRUE,
             s  |-> IF requests[i].method = "GET" THEN sourceProject ELSE targetProject]

PathSegmentWitness ==
    /\ Len(requests) = 2
    /\ requests[2].method = "POST"
    /\ targetProject = <<"g", "/", "%">>
    /\ gitlabURL = <<Origin, "/", "g">>

---------------------------------------------------------------------------
(* C8: in a live run the creation calls go to the target project in the     *)
(* order of the list: the i-th POST carries the i-th listed record, equal   *)
(* in all six fields once decoded, there is one call per variable processed *)
(* (duplicates included, none repeated), and N calls when the run ends.     *)
CreationCallsFollowTheList ==
    (~dryRun /\ Listed) =>
        /\ requests[1].method = "GET"
        /\ PostIndexes = 2..Len(requests)
        /\ Len(requests) = idx
        /\ sourceVars = DecodeList(responses[1].body).vars
        /\ \A i \in PostIndexes :
             /\ DecodeList(requests[i].body) = [ok |-> TRUE, vars |-> <<sourceVars[i - 1]>>]
             /\ AddressedPath(requests[i], gitlabURL) = [ok |-> TRUE, s |-> targetProject]
        /\ pc = "exited" => Len(requests) = 1 + Len(sourceVars)

CreationOrderWitness ==
    /\ ~dryRun
    /\ pc = "exited"
    /\ Len(sourceVars) = 3
    /\ sourceVars[1] = sourceVars[2]
    /\ sourceVars[2] # sourceVars[3]
    /\ responses[2].kind = "response" /\ responses[2].status = 400
    /\ responses[3].kind = "response" /\ responses[3].status = 201

---------------------------------------------------------------------------
(* C9: the list operation hands back a list only for a 200 whose body       *)
(* decodes, and then the decoded body; a 404 gives a not-found error naming *)
(* the project path, any other status a request-failed error with the       *)
(* status and the body, and with any error no list at all.                  *)
ListResultFollowsResponse ==
    (Validated /\ pc # "fetch" /\ Len(responses) >= 1) =>
        LET o   == responses[1]
            dec == DecodeList(o.body)
        IN  /\ listErr = NoErr <=> (o.kind = "response" /\ o.status = 200 /\ dec.ok)
            /\ listErr = NoErr => sourceVars = dec.vars
            /\ listErr # NoErr => sourceVars = <<>>
            /\ (o.kind = "response" /\ o.status = 404) =>
                   (listErr.kind = "NotFound" /\ listErr.subject = sourceProject)
            /\ (o.kind = "response" /\ o.status \notin {200, 404}) =>
                   /\ listErr.kind = "RequestFailed"
                   /\ listErr.status = o.status
                   /\ listErr.body = o.body
            /\ o.kind = "transport" => listErr.kind = "Transport"
            /\ (o.kind = "response" /\ o.status = 200 /\ ~dec.ok) => listErr.kind = "Decode"

PartialBodyWitness ==
    /\ listErr.kind = "Decode"
    /\ Len(responses) = 1
    /\ Len(responses[1].body) = 3
    /\ DecodeList(responses[1].body).vars # <<>>

---------------------------------------------------------------------------
(* Termination and the number of network calls of a run *)

\* the steps the run can still take, at most
Rank ==
    CASE pc = "start"    -> MaxVars + 4
      [] pc = "fetch"    -> MaxVars + 3
      [] pc = "dryrun"   -> 1
      [] pc = "transfer" -> Len(sourceVars) + 2 - idx
      [] pc = "exited"   -> 0

\* ENABLED Next, one action at a time
CanStep ==
    \/ ENABLED Usage
    \/ ENABLED Configure
    \/ ENABLED FetchFail
    \/ ENABLED FetchOK
    \/ ENABLED DryRunWriteFail
    \/ ENABLED DryRunWritten
    \/ ENABLED Summary
    \/ ENABLED TransferFail
    \/ ENABLED TransferOK

\* the listing request cannot go on the network: url.Parse rejects the URL,
\* or the URL names no scheme and host
ListingUnsendable ==
    \/ \E i \in 1..Len(gitlabURL) : gitlabURL[i] = "\n"
    \/ gitlabURL = <<>>
    \/ gitlabURL[1] # Origin

OneExitInOrder ==
    /\ Len(exits) <= 1
    /\ pc = "exited" <=> Len(exits) = 1
    /\ pc # "exited" => (Rank > 0 /\ CanStep)
    /\ Len(responses) = Len(requests)
    /\ \A i \in 1..Len(requests) : requests[i].method = "GET" <=> i = 1

(* C10 as stated: a run that has exited has one exit status, made its GET   *)
(* before every POST, and made exactly one network call whenever the        *)
(* listing failed.                                                          *)
NetworkCallsAsClaimed ==
    pc = "exited" =>
        /\ Len(exits) = 1
        /\ \A i \in 1..Len(requests) : requests[i].method = "GET" <=> i = 1
        /\ Len(requests) =
             IF ~Validated THEN 0
             ELSE IF listErr # NoErr THEN 1
             ELSE IF dryRun THEN 1
             ELSE 1 + Len(sourceVars)

NetworkCallsCounted ==
    pc = "exited" =>
        Len(requests) =
             IF ~Validated THEN 0
             ELSE IF listErr # NoErr THEN (IF ListingUnsendable THEN 0 ELSE 1)
             ELSE IF dryRun THEN 1
             ELSE 1 + Len(sourceVars)

(* C10: every run ends, with one exit status: each step brings the run      *)
(* closer to its end, a run that has not exited has a step to take, and a   *)
(* run that has exited made no network call when validation failed, one     *)
(* when the listing call was sent and failed or the run was a dry run, and  *)
(* 1 + N in a live run that listed N variables, the GET before every POST.  *)
(* A listing that fails before its request is sent makes no network call.   *)
RunEndsWithCountedCalls ==
    /\ [][Rank' < Rank]_vars
    /\ [](OneExitInOrder /\ NetworkCallsCounted)

UnsentListingWitness ==
    /\ pc = "exited"
    /\ Validated
    /\ listErr.kind = "NewRequest"
    /\ requests = <<>>
    /\ exits = <<1>>
    /\ ~dryRun

=============================================================================
